---- MODULE Spec2Model ----
(***************************************************************************)
(* SmartFileOrganizer (src/main.py): the classification / scan /           *)
(* organize / export / search engine and the handlers that drive it.       *)
(*                                                                         *)
(* Strings are sequences of one-character strings, so that lower(),        *)
(* Path.suffix, Path.stem, substring tests and the " (k)" collision suffix *)
(* are computed the way the code computes them.                            *)
(* A path inside the tree is the sequence of its components below the      *)
(* scanned directory; a Path object is [anchor, parts], where anchor is    *)
(* the spelling of the scanned directory the path was built from.          *)
(***************************************************************************)
EXTENDS Integers, Sequences, FiniteSets, TLC

VARIABLES
    files,        \* regular files on disk: path (parts) -> content
    dirs,         \* directories on disk: set of paths (parts); <<>> is the scan root
    files_info,   \* app.files_info, the Index
    log_text,     \* lines appended to the log by the latest handler
    runs_left,    \* organize_files calls still allowed in this behaviour
    reports_left, \* export_reports calls still allowed in this behaviour
    faults_left,  \* scanned entries that may still go away or be unreadable
    track,        \* history: which scan the Index comes from, which organize settled the tree
    last          \* history: the latest handler call, what it did and showed

vars == <<files, dirs, files_info, log_text, runs_left, reports_left, faults_left, track, last>>

----------------------------------------------------------------------------
(* Bounds *)

\* organize_files calls per behaviour (each call can lengthen names by " (k)")
MaxRuns == 2

\* export_reports calls per behaviour
MaxReports == 1

\* files in the tree at the start
MaxFiles == 3

\* entries that go away or cannot be read while a scan runs, per behaviour of
\* SpecFaults, and the organize_files calls of such a behaviour
MaxFaults == 1
MaxFaultRuns == 1

\* files in the tree at the start of a behaviour of SpecExport, and its
\* organize_files calls
MaxExportFiles == 1
MaxExportRuns == 1

----------------------------------------------------------------------------
(* Strings *)

UpperCase == <<"A", "B", "C", "D", "E", "F", "G", "H", "I", "J", "K", "L", "M", "N", "O", "P", "Q", "R", "S", "T", "U", "V", "W", "X", "Y", "Z">>
LowerCase == <<"a", "b", "c", "d", "e", "f", "g", "h", "i", "j", "k", "l", "m", "n", "o", "p", "q", "r", "s", "t", "u", "v", "w", "x", "y", "z">>
DigitChars == <<"0", "1", "2", "3", "4", "5", "6", "7", "8", "9">>

\* the lower-case letter of each upper-case letter
LowerOf == [c \in {UpperCase[i] : i \in 1..Len(UpperCase)} |->
              LowerCase[CHOOSE i \in 1..Len(UpperCase) : UpperCase[i] = c]]

\* str.lower(), one character
LowerChar(c) == IF c \in DOMAIN LowerOf THEN LowerOf[c] ELSE c

\* str.lower()
lower(s) == [i \in 1..Len(s) |-> LowerChar(s[i])]

\* k in name
Contains(k, name) ==
    \E i \in 0..(Len(name) - Len(k)) : \A j \in 1..Len(k) : name[i + j] = k[j]

\* str.lstrip(".")
RECURSIVE lstrip_dot(_)
lstrip_dot(s) == IF s # <<>> /\ Head(s) = "." THEN lstrip_dot(Tail(s)) ELSE s

\* f"{counter}"
RECURSIVE str(_)
str(n) ==
    IF n < 10 THEN <<DigitChars[n + 1]>>
    ELSE str(n \div 10) \o <<DigitChars[(n % 10) + 1]>>

\* name.rfind("."), 1-based, 0 when there is none
rfind_dot(name) ==
    IF \E i \in 1..Len(name) : name[i] = "."
    THEN CHOOSE i \in 1..Len(name) :
            name[i] = "." /\ \A j \in (i + 1)..Len(name) : name[j] # "."
    ELSE 0

\* PurePath.suffix
suffix(name) ==
    LET i == rfind_dot(name)
    IN IF 1 < i /\ i < Len(name) THEN SubSeq(name, i, Len(name)) ELSE <<>>

\* PurePath.stem
stem(name) ==
    LET i == rfind_dot(name)
    IN IF 1 < i /\ i < Len(name) THEN SubSeq(name, 1, i - 1) ELSE name

----------------------------------------------------------------------------
(* Category configuration *)

CATEGORY_MAP == <<
    [category |-> <<"I", "m", "a", "g", "e", "s">>, ext_list |-> {<<".", "j", "p", "g">>, <<".", "j", "p", "e", "g">>, <<".", "p", "n", "g">>, <<".", "g", "i", "f">>, <<".", "b", "m", "p">>, <<".", "t", "i", "f", "f">>, <<".", "w", "e", "b", "p">>, <<".", "s", "v", "g">>, <<".", "h", "e", "i", "c">>}],
    [category |-> <<"V", "i", "d", "e", "o", "s">>, ext_list |-> {<<".", "m", "p", "4">>, <<".", "m", "k", "v">>, <<".", "a", "v", "i">>, <<".", "m", "o", "v">>, <<".", "f", "l", "v">>, <<".", "w", "m", "v">>, <<".", "w", "e", "b", "m">>}],
    [category |-> <<"A", "u", "d", "i", "o">>, ext_list |-> {<<".", "m", "p", "3">>, <<".", "w", "a", "v">>, <<".", "a", "a", "c">>, <<".", "f", "l", "a", "c">>, <<".", "m", "4", "a">>, <<".", "o", "g", "g">>}],
    [category |-> <<"D", "o", "c", "u", "m", "e", "n", "t", "s">>, ext_list |-> {<<".", "d", "o", "c">>, <<".", "d", "o", "c", "x">>, <<".", "t", "x", "t">>, <<".", "r", "t", "f">>, <<".", "o", "d", "t">>}],
    [category |-> <<"P", "D", "F", "s">>, ext_list |-> {<<".", "p", "d", "f">>}],
    [category |-> <<"S", "p", "r", "e", "a", "d", "s", "h", "e", "e", "t", "s">>, ext_list |-> {<<".", "x", "l", "s">>, <<".", "x", "l", "s", "x">>, <<".", "c", "s", "v">>, <<".", "o", "d", "s">>}],
    [category |-> <<"P", "r", "e", "s", "e", "n", "t", "a", "t", "i", "o", "n", "s">>, ext_list |-> {<<".", "p", "p", "t">>, <<".", "p", "p", "t", "x">>, <<".", "o", "d", "p">>}],
    [category |-> <<"A", "r", "c", "h", "i", "v", "e", "s">>, ext_list |-> {<<".", "z", "i", "p">>, <<".", "r", "a", "r">>, <<".", "7", "z">>, <<".", "t", "a", "r">>, <<".", "g", "z">>}],
    [category |-> <<"E", "x", "e", "c", "u", "t", "a", "b", "l", "e", "s">>, ext_list |-> {<<".", "e", "x", "e">>, <<".", "m", "s", "i">>, <<".", "b", "a", "t">>, <<".", "s", "h">>, <<".", "a", "p", "k">>}],
    [category |-> <<"C", "o", "d", "e">>, ext_list |-> {<<".", "p", "y">>, <<".", "j", "a", "v", "a">>, <<".", "c", "p", "p">>, <<".", "c">>, <<".", "j", "s">>, <<".", "p", "h", "p">>, <<".", "h", "t", "m", "l">>, <<".", "c", "s", "s">>, <<".", "t", "s">>, <<".", "i", "p", "y", "n", "b">>}]
>>

Others == <<"O", "t", "h", "e", "r", "s">>

RECURSIVE first_category(_, _)
first_category(extension, i) ==
    IF i > Len(CATEGORY_MAP) THEN Others
    ELSE IF extension \in CATEGORY_MAP[i].ext_list THEN CATEGORY_MAP[i].category
    ELSE first_category(extension, i + 1)

get_category(extension) == first_category(lower(extension), 1)

ImageKeywords == {<<"i", "m", "g">>, <<"i", "m", "a", "g", "e">>, <<"p", "h", "o", "t", "o">>, <<"c", "a", "m", "e", "r", "a">>, <<"s", "c", "r", "e", "e", "n", "s", "h", "o", "t">>, <<"s", "n", "a", "p">>}
VideoKeywords == {<<"v", "i", "d", "e", "o">>, <<"m", "o", "v", "i", "e">>, <<"c", "l", "i", "p">>, <<"r", "e", "c", "o", "r", "d">>}
DocumentKeywords == {<<"d", "o", "c">>, <<"r", "e", "p", "o", "r", "t">>, <<"a", "s", "s", "i", "g", "n", "m", "e", "n", "t">>, <<"n", "o", "t", "e", "s">>, <<"l", "e", "t", "t", "e", "r">>}
AudioKeywords == {<<"m", "u", "s", "i", "c">>, <<"s", "o", "n", "g">>, <<"a", "u", "d", "i", "o">>, <<"t", "r", "a", "c", "k">>}

\* guess_ai_category without its first test: the keywords are tried whatever
\* the category is
guess_ai_category_ungated(entry_name, base_category) ==
    LET name == lower(entry_name)
    IN IF \E k \in ImageKeywords : Contains(k, name) THEN <<"I", "m", "a", "g", "e", "s">>
       ELSE IF \E k \in VideoKeywords : Contains(k, name) THEN <<"V", "i", "d", "e", "o", "s">>
       ELSE IF \E k \in DocumentKeywords : Contains(k, name) THEN <<"D", "o", "c", "u", "m", "e", "n", "t", "s">>
       ELSE IF \E k \in AudioKeywords : Contains(k, name) THEN <<"A", "u", "d", "i", "o">>
       ELSE <<>>

guess_ai_category(entry_name, base_category) ==
    IF base_category # Others THEN <<>>
    ELSE LET name == lower(entry_name)
         IN IF \E k \in ImageKeywords : Contains(k, name) THEN <<"I", "m", "a", "g", "e", "s">>
            ELSE IF \E k \in VideoKeywords : Contains(k, name) THEN <<"V", "i", "d", "e", "o", "s">>
            ELSE IF \E k \in DocumentKeywords : Contains(k, name) THEN <<"D", "o", "c", "u", "m", "e", "n", "t", "s">>
            ELSE IF \E k \in AudioKeywords : Contains(k, name) THEN <<"A", "u", "d", "i", "o">>
            ELSE <<>>

----------------------------------------------------------------------------
(* Paths and the file system *)

\* Spellings the folder field can hold.  CanonicalRoot is the resolved absolute
\* path of the scanned directory; AliasRoot is another spelling of the same
\* directory (a relative path, or a path through a symbolic link);
\* MissingRoot names nothing; FileRoot names a regular file.
CanonicalRoot == "/home/u/Downloads"
AliasRoot == "Downloads"
MissingRoot == "/home/u/nowhere"
FileRoot == "/home/u/todo.txt"
EmptyText == ""

\* the texts tried
FolderTexts == {CanonicalRoot, AliasRoot, MissingRoot, FileRoot}

\* Path(text)
PathOf(text) == [anchor |-> text, parts |-> <<>>]

\* path / name
Join(path, name) == [path EXCEPT !.parts = Append(@, name)]

\* path.name
NameOf(path) == path.parts[Len(path.parts)]

\* path.parent
ParentOf(path) == [path EXCEPT !.parts = SubSeq(@, 1, Len(@) - 1)]

\* path.resolve(): the spelling is replaced by the canonical one
resolve(path) ==
    IF path.anchor = AliasRoot THEN [path EXCEPT !.anchor = CanonicalRoot] ELSE path

\* whether the spelling leads into the tree held in files and dirs
InTree(path) == path.anchor \in {CanonicalRoot, AliasRoot}

\* path.is_dir()
is_dir(path, fdirs) == InTree(path) /\ path.parts \in fdirs

\* a regular file is at the path
is_regular(path, ffiles) ==
    \/ InTree(path) /\ path.parts \in DOMAIN ffiles
    \/ path.anchor = FileRoot /\ path.parts = <<>>

\* path.exists()
exists(path, ffiles, fdirs) == is_regular(path, ffiles) \/ is_dir(path, fdirs)

\* p is d or lies below d
Below(p, d) == Len(p) >= Len(d) /\ SubSeq(p, 1, Len(d)) = d

\* the entries directly inside directory d
ChildrenOf(S, d) == {p \in S : Len(p) = Len(d) + 1 /\ Below(p, d)}

\* f with x removed from its domain
Without(f, x) == [p \in (DOMAIN f) \ {x} |-> f[p]]

\* f with x mapped to v
With(f, x, v) == [p \in (DOMAIN f) \cup {x} |-> IF p = x THEN v ELSE f[p]]

\* every order in which a directory listing can come back
RECURSIVE Perms(_)
Perms(S) ==
    IF S = {} THEN {<<>>}
    ELSE UNION {{<<x>> \o t : t \in Perms(S \ {x})} : x \in S}

\* str(path), components joined by "/"
RECURSIVE join_parts(_)
join_parts(parts) ==
    IF parts = <<>> THEN <<>>
    ELSE IF Len(parts) = 1 THEN parts[1]
    ELSE parts[1] \o <<"/">> \o join_parts(Tail(parts))

----------------------------------------------------------------------------
(* Scanner *)

ReportCsv == <<"o", "r", "g", "a", "n", "i", "z", "e", "d", "_", "i", "n", "d", "e", "x", ".", "c", "s", "v">>
ReportJson == <<"o", "r", "g", "a", "n", "i", "z", "e", "d", "_", "i", "n", "d", "e", "x", ".", "j", "s", "o", "n">>

None == [none |-> TRUE]
Raised(what) == [raised |-> what]

\* datetime.fromtimestamp(st_mtime).strftime("%Y-%m-%d %H:%M:%S"): whole seconds
strftime(mtime) == mtime.sec

\* get_file_info without the test of the two report names
get_file_info_unreserved(entry, root_folder, ffiles, stat_fails) ==
    LET ext == lower(suffix(NameOf(entry)))
        category == get_category(ext)
        ai_hint == guess_ai_category(NameOf(entry), category)
    IN IF stat_fails THEN Raised("FileNotFoundError")
       ELSE [name |-> NameOf(entry),
             relative_path |-> join_parts(entry.parts),
             full_path |-> resolve(entry),
             extension |-> IF ext # <<>> THEN ext ELSE <<"(", "n", "o", " ", "e", "x", "t", "e", "n", "s", "i", "o", "n", ")">>,
             category |-> category,
             ai_hint |-> ai_hint,
             size_bytes |-> ffiles[entry.parts].size_bytes,
             modified_time |-> strftime(ffiles[entry.parts].mtime)]

\* stat_fails: entry.stat() raises (the file went away after is_file())
get_file_info(entry, root_folder, ffiles, stat_fails) ==
    IF NameOf(entry) \in {ReportCsv, ReportJson} THEN None
    ELSE LET ext == lower(suffix(NameOf(entry)))
             category == get_category(ext)
             ai_hint == guess_ai_category(NameOf(entry), category)
         IN IF stat_fails THEN Raised("FileNotFoundError")
            ELSE [name |-> NameOf(entry),
                  relative_path |-> join_parts(entry.parts),
                  full_path |-> resolve(entry),
                  extension |-> IF ext # <<>> THEN ext ELSE <<"(", "n", "o", " ", "e", "x", "t", "e", "n", "s", "i", "o", "n", ")">>,
                  category |-> category,
                  ai_hint |-> ai_hint,
                  size_bytes |-> ffiles[entry.parts].size_bytes,
                  modified_time |-> strftime(ffiles[entry.parts].mtime)]

\* os.walk(top): the orders in which it can yield the non-directories below top;
\* a top that is no directory yields nothing
RECURSIVE WalkOrders(_, _, _), WalkEach(_, _, _)
WalkOrders(ffiles, fdirs, top) ==
    {f \o rest : f \in Perms(ChildrenOf(DOMAIN ffiles, top)),
                 rest \in UNION {WalkEach(ffiles, fdirs, ds) :
                                    ds \in Perms(ChildrenOf(fdirs, top))}}
WalkEach(ffiles, fdirs, ds) ==
    IF ds = <<>> THEN {<<>>}
    ELSE {h \o t : h \in WalkOrders(ffiles, fdirs, Head(ds)),
                   t \in WalkEach(ffiles, fdirs, Tail(ds))}

\* the orders in which scan_folder can meet the non-directories: os.walk's file
\* names, or the children of iterdir() (a directory among them fails is_file()
\* and is passed over); os.walk of something that is no directory yields nothing
Listings(folder_path, rec, ffiles, fdirs) ==
    IF ~is_dir(folder_path, fdirs) THEN {<<>>}
    ELSE IF rec THEN WalkOrders(ffiles, fdirs, <<>>)
    ELSE Perms(ChildrenOf(DOMAIN ffiles, <<>>))

\* What happens to the entry at position `bad` of the listing while it is scanned
\* (0: nothing happens to any entry):
\*   "absent"  it is removed before entry.is_file(), which then answers False
\*   "race"    it is removed between entry.is_file() and entry.stat()
\*   "denied"  it cannot be stat'ed: entry.is_file() raises PermissionError
Fates == {"absent", "race", "denied"}

\* the loop of scan_folder over listing[i..]; st = [files_info, ffiles, raised]
RECURSIVE scan_loop(_, _, _, _, _, _)
scan_loop(folder_path, listing, i, bad, fate, st) ==
    IF i > Len(listing) \/ st.raised # "none" THEN st
    ELSE LET entry == [anchor |-> folder_path.anchor, parts |-> listing[i]]
             hit == (i = bad /\ listing[i] \in DOMAIN st.ffiles)
         IN IF hit /\ fate = "denied"
            THEN [st EXCEPT !.raised = "PermissionError"]
            ELSE IF hit /\ fate = "absent"
            THEN scan_loop(folder_path, listing, i + 1, bad, fate,
                           [st EXCEPT !.ffiles = Without(@, listing[i])])
            ELSE IF ~is_regular(entry, st.ffiles)
            THEN scan_loop(folder_path, listing, i + 1, bad, fate, st)
            ELSE LET info == get_file_info(entry, folder_path, st.ffiles,
                                           hit /\ fate = "race")
                     gone == IF hit /\ fate = "race"
                             THEN Without(st.ffiles, listing[i]) ELSE st.ffiles
                 IN IF info = None
                    THEN scan_loop(folder_path, listing, i + 1, bad, fate,
                                   [st EXCEPT !.ffiles = gone])
                    ELSE IF info = Raised("FileNotFoundError")
                    THEN [st EXCEPT !.raised = "FileNotFoundError", !.ffiles = gone]
                    ELSE scan_loop(folder_path, listing, i + 1, bad, fate,
                                   [st EXCEPT !.files_info = Append(@, info)])

\* scan_folder(folder_path, recursive) over one listing; iterdir() raises for a
\* folder_path that is no directory
scan_folder(folder_path, rec, listing, bad, fate, ffiles, fdirs) ==
    IF ~rec /\ ~is_dir(folder_path, fdirs)
    THEN [files_info |-> <<>>, ffiles |-> ffiles,
          raised |-> IF exists(folder_path, ffiles, fdirs)
                     THEN "NotADirectoryError" ELSE "FileNotFoundError"]
    ELSE scan_loop(folder_path, listing, 1, bad, fate,
                   [files_info |-> <<>>, ffiles |-> ffiles, raised |-> "none"])

----------------------------------------------------------------------------
(* Organizer *)

\* a test such as `files_info is None`, which an empty Index passes
never_falsy(index) == FALSE

\* `not files_info`
falsy(index) == index = <<>>

\* category_count: the categories of the Index in order of first appearance,
\* each with its number of records
RECURSIVE category_count(_, _, _)
category_count(index, i, acc) ==
    IF i > Len(index) THEN acc
    ELSE LET cat == index[i].category
         IN IF \E j \in 1..Len(acc) : acc[j].category = cat
            THEN category_count(index, i + 1,
                    [j \in 1..Len(acc) |->
                        IF acc[j].category = cat
                        THEN [acc[j] EXCEPT !.count = @ + 1] ELSE acc[j]])
            ELSE category_count(index, i + 1,
                    Append(acc, [category |-> cat, count |-> 1]))

\* the names present in a directory
NamesIn(folder_parts, ffiles, fdirs) ==
    {p[Len(p)] : p \in ChildrenOf(DOMAIN ffiles, folder_parts)
                     \cup ChildrenOf(fdirs, folder_parts)}

\* category_folder.mkdir(exist_ok=True); st = [ffiles, fdirs, moves, raised]
mkdir_exist_ok(path, st) ==
    IF is_dir(path, st.fdirs) THEN st
    ELSE IF is_regular(path, st.ffiles) THEN [st EXCEPT !.raised = "FileExistsError"]
    ELSE IF ~exists(ParentOf(path), st.ffiles, st.fdirs)
    THEN [st EXCEPT !.raised = "FileNotFoundError"]
    ELSE IF ~is_dir(ParentOf(path), st.fdirs)
    THEN [st EXCEPT !.raised = "NotADirectoryError"]
    ELSE [st EXCEPT !.fdirs = @ \cup {path.parts}]

\* f"{base} ({counter}){ext}"
numbered(base, counter, ext) == base \o <<" ", "(">> \o str(counter) \o <<")">> \o ext

\* the while loop of organize_files: the first "base (counter).ext" not on disk
RECURSIVE free_dest(_, _, _, _, _, _)
free_dest(category_folder, base, ext, counter, ffiles, fdirs) ==
    LET new_dest == Join(category_folder, numbered(base, counter, ext))
    IN IF ~exists(new_dest, ffiles, fdirs) THEN new_dest
       ELSE free_dest(category_folder, base, ext, counter + 1, ffiles, fdirs)

\* choose_dest without the test dest.exists()
choose_dest_unchecked(dest, category_folder, ffiles, fdirs) == dest

\* choose_dest with the counter starting at 2
choose_dest_from_two(dest, category_folder, ffiles, fdirs) ==
    IF exists(dest, ffiles, fdirs)
    THEN free_dest(category_folder, stem(NameOf(dest)), suffix(NameOf(dest)), 2,
                   ffiles, fdirs)
    ELSE dest

\* the destination organize_files moves to: dest, or a numbered name when
\* dest.exists()
choose_dest(dest, category_folder, ffiles, fdirs) ==
    IF exists(dest, ffiles, fdirs)
    THEN free_dest(category_folder, stem(NameOf(dest)), suffix(NameOf(dest)), 1,
                   ffiles, fdirs)
    ELSE dest

\* p with its leading components d replaced by e
Rebase(p, d, e) == e \o SubSeq(p, Len(d) + 1, Len(p))

\* shutil.move(src, dst) on one volume: os.rename, which replaces a regular file
\* at the destination; a destination that is a directory receives src inside it
shutil_move(src, dst, folder, st) ==
    LET into == is_dir(dst, st.fdirs) /\ ~(is_dir(src, st.fdirs) /\ src.parts = dst.parts)
        real_dst == IF into THEN Join(dst, NameOf(src)) ELSE dst
        note == [src |-> src.parts, dst |-> real_dst.parts, folder |-> folder.parts,
                 name |-> NameOf(src),
                 taken |-> NamesIn(folder.parts, st.ffiles, st.fdirs),
                 onto |-> exists(real_dst, st.ffiles, st.fdirs)]
    IN IF into /\ exists(real_dst, st.ffiles, st.fdirs)
       THEN [st EXCEPT !.raised = "shutil.Error"]
       ELSE IF is_regular(src, st.ffiles)
       THEN IF ~is_dir(ParentOf(real_dst), st.fdirs)
            THEN [st EXCEPT !.raised = "FileNotFoundError"]
            ELSE [st EXCEPT
                    !.ffiles = With(Without(@, src.parts), real_dst.parts, @[src.parts]),
                    !.moves = Append(@, note)]
       ELSE IF is_dir(src, st.fdirs)
       THEN IF Below(real_dst.parts, src.parts)
            THEN [st EXCEPT !.raised = "shutil.Error"]
            ELSE IF exists(real_dst, st.ffiles, st.fdirs)
                    \/ ~is_dir(ParentOf(real_dst), st.fdirs)
            THEN [st EXCEPT !.raised = "OSError"]
            ELSE [st EXCEPT
                    !.ffiles = [q \in {IF Below(p, src.parts)
                                       THEN Rebase(p, src.parts, real_dst.parts)
                                       ELSE p : p \in DOMAIN st.ffiles} |->
                                  LET p == CHOOSE p \in DOMAIN st.ffiles :
                                             q = IF Below(p, src.parts)
                                                 THEN Rebase(p, src.parts, real_dst.parts)
                                                 ELSE p
                                  IN st.ffiles[p]],
                    !.fdirs = {IF Below(d, src.parts)
                               THEN Rebase(d, src.parts, real_dst.parts)
                               ELSE d : d \in st.fdirs},
                    !.moves = Append(@, note)]
       ELSE [st EXCEPT !.raised = "FileNotFoundError"]

\* organize_one with the folder taken from ai_hint when there is one
organize_one_by_hint(root_folder, info, st) ==
    LET src == info.full_path
        category_folder == Join(root_folder, IF info.ai_hint # <<>> THEN info.ai_hint
                                             ELSE info.category)
        made == mkdir_exist_ok(category_folder, st)
        dest == Join(category_folder, NameOf(src))
    IN IF made.raised # "none" THEN made
       ELSE IF ParentOf(src) = category_folder THEN made
       ELSE shutil_move(src, choose_dest(dest, category_folder, made.ffiles, made.fdirs),
                        category_folder, made)

\* the body of the second loop of organize_files for one record
organize_one(root_folder, info, st) ==
    LET src == info.full_path
        category_folder == Join(root_folder, info.category)
        made == mkdir_exist_ok(category_folder, st)
        dest == Join(category_folder, NameOf(src))
    IN IF made.raised # "none" THEN made
       ELSE IF ParentOf(src) = category_folder THEN made
       ELSE shutil_move(src, choose_dest(dest, category_folder, made.ffiles, made.fdirs),
                        category_folder, made)

RECURSIVE organize_loop(_, _, _, _)
organize_loop(root_folder, index, i, st) ==
    IF i > Len(index) \/ st.raised # "none" THEN st
    ELSE organize_loop(root_folder, index, i + 1, organize_one(root_folder, index[i], st))

\* organize_files(root_folder, files_info): the tree afterwards, the moves made,
\* the exception raised ("none": it returned) and what it returned
organize_files(root_folder, index, ffiles, fdirs) ==
    LET st0 == [ffiles |-> ffiles, fdirs |-> fdirs, moves |-> <<>>, raised |-> "none"]
    IN IF falsy(index)
       THEN [st |-> st0, ret |-> "No files found to organize.", summary |-> <<>>]
       ELSE LET st1 == organize_loop(root_folder, index, 1, st0)
            IN IF st1.raised # "none"
               THEN [st |-> st1, ret |-> "none", summary |-> <<>>]
               ELSE [st |-> st1,
                     ret |-> "Files have been organized into category folders.",
                     summary |-> category_count(index, 1, <<>>)]

----------------------------------------------------------------------------
(* Exporter *)

\* what a report file holds: its format and a mark of the export_reports call
\* that wrote it
Written(format, call) ==
    [id |-> 0, size_bytes |-> 1, mtime |-> [sec |-> 0, frac |-> 0],
     data |-> <<format, call>>]

\* open(path, "w") and write; st = [ffiles, fdirs, raised]
open_w(path, content, st) ==
    IF st.raised # "none" THEN st
    ELSE IF is_dir(path, st.fdirs) THEN [st EXCEPT !.raised = "IsADirectoryError"]
    ELSE IF ~is_dir(ParentOf(path), st.fdirs)
    THEN [st EXCEPT !.raised = "FileNotFoundError"]
    ELSE [st EXCEPT !.ffiles = With(@, path.parts, content)]

\* export_reports(folder_path, files_info), the call-th call
export_reports(folder_path, index, call, ffiles, fdirs) ==
    LET st0 == [ffiles |-> ffiles, fdirs |-> fdirs, raised |-> "none"]
        csv_path == Join(folder_path, ReportCsv)
        json_path == Join(folder_path, ReportJson)
        opened == open_w(csv_path, Written("csv", call), st0)
    IN IF falsy(index) THEN [st |-> st0, ret |-> "No files to export."]
       ELSE IF index = <<>>
       THEN \* files_info[0] raises after the csv file was opened for writing
            [st |-> IF opened.raised = "none"
                    THEN [opened EXCEPT !.raised = "IndexError"] ELSE opened,
             ret |-> "none"]
       ELSE [st |-> open_w(json_path, Written("json", call), opened),
             ret |-> "Reports created"]

----------------------------------------------------------------------------
(* QueryEngine *)

\* matches with the category search looking at the category only
matches_without_hint(info, search_type, query_lower) ==
    IF search_type = "name" THEN Contains(query_lower, lower(info.name))
    ELSE IF search_type = "extension"
    THEN lstrip_dot(query_lower) = lstrip_dot(lower(info.extension))
    ELSE IF search_type = "category"
    THEN query_lower = lower(info.category)
    ELSE FALSE

\* the tests of search_files on one record
matches(info, search_type, query_lower) ==
    IF search_type = "name" THEN Contains(query_lower, lower(info.name))
    ELSE IF search_type = "extension"
    THEN lstrip_dot(query_lower) = lstrip_dot(lower(info.extension))
    ELSE IF search_type = "category"
    THEN \/ query_lower = lower(info.category)
         \/ query_lower = lower(info.ai_hint)
    ELSE FALSE

\* search_files(files_info, search_type, query)
search_files(index, search_type, query) ==
    LET hit(info) == matches(info, search_type, lower(query))
    IN SelectSeq(index, hit)

----------------------------------------------------------------------------
(* The application: state, handlers, environment *)

\* the files a tree can start with
Candidates ==
    (<<<<"R", "e", "p", "o", "r", "t", ".", "T", "X", "T">>>> :> [id |-> 1, size_bytes |-> 12, mtime |-> [sec |-> 100, frac |-> 5], data |-> <<>>])
    @@ (<<<<"s", "u", "b">>, <<"R", "e", "p", "o", "r", "t", ".", "T", "X", "T">>>> :> [id |-> 2, size_bytes |-> 7, mtime |-> [sec |-> 101, frac |-> 0], data |-> <<>>])
    @@ (<<<<"D", "o", "c", "u", "m", "e", "n", "t", "s">>, <<"R", "e", "p", "o", "r", "t", ".", "T", "X", "T">>>> :> [id |-> 3, size_bytes |-> 0, mtime |-> [sec |-> 102, frac |-> 0], data |-> <<>>])
    @@ (<<<<"p", "h", "o", "t", "o", "1", "2", "3", ".", "x", "y", "z">>>> :> [id |-> 4, size_bytes |-> 3, mtime |-> [sec |-> 103, frac |-> 9], data |-> <<>>])

\* the files a searched tree can start with
SearchCandidates ==
    (<<<<"p", "i", "c", ".", "P", "N", "G">>>> :> [id |-> 5, size_bytes |-> 9, mtime |-> [sec |-> 104, frac |-> 0], data |-> <<>>])
    @@ (<<<<"p", "h", "o", "t", "o", "1", "2", "3", ".", "x", "y", "z">>>> :> [id |-> 4, size_bytes |-> 3, mtime |-> [sec |-> 103, frac |-> 9], data |-> <<>>])
    @@ (<<<<"R", "e", "p", "o", "r", "t", ".", "T", "X", "T">>>> :> [id |-> 1, size_bytes |-> 12, mtime |-> [sec |-> 100, frac |-> 5], data |-> <<>>])
    @@ (<<<<"s", "u", "b">>, <<"m", "e", "m", "o">>>> :> [id |-> 6, size_bytes |-> 1, mtime |-> [sec |-> 105, frac |-> 0], data |-> <<>>])

\* the directories a set of file paths needs
RECURSIVE Ancestors(_)
Ancestors(p) == IF p = <<>> THEN {<<>>} ELSE {p} \cup Ancestors(SubSeq(p, 1, Len(p) - 1))
DirsFor(paths) == {<<>>} \cup UNION {Ancestors(SubSeq(p, 1, Len(p) - 1)) : p \in paths}

\* the searches tried: the button pressed and what the search field holds
Searches ==
    {<<"category", <<"I", "M", "A", "G", "E", "S">>>>, <<"extension", <<"t", "x", "t">>>>, <<"name", <<>>>>}

NoScan == [valid |-> FALSE, rec |-> FALSE]
Unsettled == [valid |-> FALSE, rec |-> FALSE, text |-> EmptyText]

Idle ==
    [op |-> "none", raised |-> "none", ret |-> "none", summary |-> <<>>,
     moves |-> <<>>, second |-> FALSE, listing |-> <<>>, bad |-> <<>>,
     fate |-> "none", search_type |-> "none", query |-> <<>>, results |-> <<>>]

Call(op) == [Idle EXCEPT !.op = op]

\* the state after construction, over a tree holding at most max_files files of pool
Start(pool, max_files, runs, reports, faults) ==
    /\ \E S \in SUBSET (DOMAIN pool) :
          /\ Cardinality(S) <= max_files
          /\ files = [p \in S |-> pool[p]]
          /\ dirs = DirsFor(S)
    /\ files_info = <<>>
    /\ log_text = <<>>
    /\ runs_left = runs
    /\ reports_left = reports
    /\ faults_left = faults
    /\ track = [scan |-> NoScan, settled |-> Unsettled]
    /\ last = Idle

Init == Start(Candidates, MaxFiles, MaxRuns, MaxReports, 0)

\* the start of a behaviour that exports reports
InitExport == Start(Candidates, MaxExportFiles, MaxExportRuns, MaxReports, 0)

\* the start of a behaviour that searches
InitSearch == Start(SearchCandidates, MaxFiles, 0, 0, 0)

\* the start of a behaviour in which other programs touch the tree during scans
InitFaults == Start(Candidates, MaxFiles, MaxFaultRuns, 0, MaxFaults)

\* get_root_folder without the test of the folder on disk
get_root_folder_unchecked(text, ffiles, fdirs) ==
    IF text = EmptyText
    THEN [ok |-> FALSE, folder |-> PathOf(text), log |-> <<"[ERROR] Folder path is empty">>]
    ELSE [ok |-> TRUE, folder |-> PathOf(text), log |-> <<>>]

\* get_root_folder(), the folder field holding text: the folder, or nothing and
\* an error line
get_root_folder(text, ffiles, fdirs) ==
    IF text = EmptyText
    THEN [ok |-> FALSE, folder |-> PathOf(text), log |-> <<"[ERROR] Folder path is empty">>]
    ELSE IF ~exists(PathOf(text), ffiles, fdirs) \/ ~is_dir(PathOf(text), fdirs)
    THEN [ok |-> FALSE, folder |-> PathOf(text), log |-> <<"[ERROR] Invalid folder path">>]
    ELSE [ok |-> TRUE, folder |-> PathOf(text), log |-> <<>>]

\* on_scan_pressed, the folder field holding text and the switch at rec, with what
\* happens to one listed entry meanwhile
on_scan_pressed(text, rec) ==
    LET got == get_root_folder(text, files, dirs)
    IN IF ~got.ok
       THEN /\ log_text' = got.log
            /\ last' = [Call("scan") EXCEPT !.raised = "InvalidRoot"]
            /\ UNCHANGED <<files, dirs, files_info, runs_left, reports_left, faults_left, track>>
       ELSE \E listing \in Listings(got.folder, rec, files, dirs) :
            \E bad \in 0..Len(listing) :
            \E fate \in Fates :
               /\ bad = 0 => fate = "denied"
               /\ bad > 0 => faults_left > 0
               /\ LET r == scan_folder(got.folder, rec, listing, bad, fate, files, dirs)
                      whole == bad = 0 /\ r.raised = "none"
                  IN /\ files' = r.ffiles
                     /\ faults_left' = IF bad = 0 THEN faults_left ELSE faults_left - 1
                     /\ files_info' = IF r.raised = "none" THEN r.files_info
                                      ELSE files_info
                     /\ log_text' =
                           IF r.raised # "none"
                           THEN <<"Scanning", "[ERROR] Error while scanning",
                                  "[INFO] Scan failed">>
                           ELSE IF falsy(r.files_info)
                           THEN <<"Scanning", "No files found.", "[INFO] No files">>
                           ELSE <<"Scanning", "Found file(s).", "Files by category:",
                                  "[INFO] Scan complete">>
                     /\ track' =
                           [scan |-> IF whole THEN [valid |-> TRUE, rec |-> rec]
                                     ELSE IF r.raised = "none" \/ r.ffiles # files
                                     THEN NoScan ELSE track.scan,
                            settled |-> IF r.ffiles = files THEN track.settled
                                        ELSE Unsettled]
                     /\ last' = [Call("scan") EXCEPT
                                    !.raised = r.raised,
                                    !.listing = IF r.raised = "none" THEN listing
                                                ELSE <<>>,
                                    !.bad = IF bad = 0 THEN <<>> ELSE listing[bad],
                                    !.fate = IF bad = 0 THEN "none" ELSE fate,
                                    !.summary = IF r.raised = "none"
                                                THEN category_count(r.files_info, 1, <<>>)
                                                ELSE <<>>]
                     /\ UNCHANGED <<dirs, runs_left, reports_left>>

\* on_organize_pressed, the folder field holding text
on_organize_pressed(text) ==
    IF falsy(files_info)
    THEN /\ log_text' = <<"[INFO] Scan first", "No data to organize. Please scan first.">>
         /\ last' = [Call("organize") EXCEPT !.raised = "NoFiles"]
         /\ UNCHANGED <<files, dirs, files_info, runs_left, reports_left, faults_left, track>>
    ELSE LET got == get_root_folder(text, files, dirs)
         IN IF ~got.ok
            THEN /\ log_text' = got.log
                 /\ last' = [Call("organize") EXCEPT !.raised = "InvalidRoot"]
                 /\ UNCHANGED <<files, dirs, files_info, runs_left, reports_left, faults_left, track>>
            ELSE LET r == organize_files(got.folder, files_info, files, dirs)
                     here == [valid |-> TRUE, rec |-> track.scan.rec, text |-> text]
                     same == r.st.ffiles = files /\ r.st.fdirs = dirs
                 IN /\ runs_left > 0
                    /\ files' = r.st.ffiles
                    /\ dirs' = r.st.fdirs
                    /\ runs_left' = runs_left - 1
                    /\ log_text' =
                          IF r.st.raised # "none"
                          THEN <<"Organizing files (this may take a moment)...",
                                 "[ERROR] Error organizing", "[INFO] Organize failed">>
                          ELSE <<"Organizing files (this may take a moment)...",
                                 "Summary by category:", r.ret,
                                 "[INFO] Organize complete">>
                    /\ track' =
                          [scan |-> IF same THEN track.scan ELSE NoScan,
                           settled |-> IF track.scan.valid /\ r.st.raised = "none"
                                       THEN here
                                       ELSE IF same THEN track.settled ELSE Unsettled]
                    /\ last' = [Call("organize") EXCEPT
                                   !.raised = r.st.raised, !.moves = r.st.moves,
                                   !.ret = r.ret, !.summary = r.summary,
                                   !.second = track.scan.valid /\ track.settled = here]
                    /\ UNCHANGED <<files_info, reports_left, faults_left>>

\* on_report_pressed, the folder field holding text
on_report_pressed(text) ==
    IF falsy(files_info)
    THEN /\ log_text' = <<"[INFO] Scan first", "No data to report. Please scan first.">>
         /\ last' = [Call("report") EXCEPT !.raised = "NoFiles"]
         /\ UNCHANGED <<files, dirs, files_info, runs_left, reports_left, faults_left, track>>
    ELSE LET got == get_root_folder(text, files, dirs)
         IN IF ~got.ok
            THEN /\ log_text' = got.log
                 /\ last' = [Call("report") EXCEPT !.raised = "InvalidRoot"]
                 /\ UNCHANGED <<files, dirs, files_info, runs_left, reports_left, faults_left, track>>
            ELSE LET r == export_reports(got.folder, files_info, reports_left, files, dirs)
                 IN /\ reports_left > 0
                    /\ files' = r.st.ffiles
                    /\ dirs' = r.st.fdirs
                    /\ reports_left' = reports_left - 1
                    /\ log_text' =
                          IF r.st.raised # "none"
                          THEN <<"[ERROR] Error creating report", "[INFO] Report failed">>
                          ELSE <<r.ret, "[INFO] Report created">>
                    /\ track' = IF r.st.ffiles = files THEN track
                                ELSE [scan |-> NoScan, settled |-> Unsettled]
                    /\ last' = [Call("report") EXCEPT !.raised = r.st.raised,
                                                      !.ret = r.ret]
                    /\ UNCHANGED <<files_info, runs_left, faults_left>>

\* on_search_pressed(search_type), the search field holding query
on_search_pressed(search_type, query) ==
    IF falsy(files_info)
    THEN /\ log_text' = <<"[INFO] Scan first", "No data for search. Please scan first.">>
         /\ last' = [Call("search") EXCEPT !.raised = "NoFiles"]
         /\ UNCHANGED <<files, dirs, files_info, runs_left, reports_left, faults_left, track>>
    ELSE IF query = <<>>
    THEN /\ log_text' = <<"[INFO] Enter search text">>
         /\ last' = [Call("search") EXCEPT !.raised = "NoQuery"]
         /\ UNCHANGED <<files, dirs, files_info, runs_left, reports_left, faults_left, track>>
    ELSE /\ log_text' = <<"Search", "Matches found", "[INFO] Search done">>
         /\ last' = [Call("search") EXCEPT
                        !.search_type = search_type, !.query = query,
                        !.results = search_files(files_info, search_type, query)]
         /\ UNCHANGED <<files, dirs, files_info, runs_left, reports_left, faults_left, track>>

ScanPressed == \E text \in FolderTexts, rec \in BOOLEAN : on_scan_pressed(text, rec)
OrganizePressed == \E text \in FolderTexts : on_organize_pressed(text)
ReportPressed == \E text \in FolderTexts : on_report_pressed(text)
SearchPressed == \E s \in Searches : on_search_pressed(s[1], s[2])

Next == ScanPressed \/ OrganizePressed \/ ReportPressed \/ SearchPressed

\* the whole application, no other program touching the tree
Spec == Init /\ [][Next]_vars

\* scanning and organizing only
SpecOrganize == Init /\ [][ScanPressed \/ OrganizePressed]_vars

\* scanning, organizing and exporting
SpecExport == InitExport /\ [][ScanPressed \/ OrganizePressed \/ ReportPressed]_vars

\* scanning and searching
SpecSearch == InitSearch /\ [][ScanPressed \/ SearchPressed]_vars

\* scanning and organizing while other programs touch the tree
SpecFaults == InitFaults /\ [][ScanPressed \/ OrganizePressed]_vars

----------------------------------------------------------------------------
(* Properties *)

\* the names of the category folders
Categories == {CATEGORY_MAP[i].category : i \in 1..Len(CATEGORY_MAP)} \cup {Others}

\* the two report names
Reserved == {ReportCsv, ReportJson}

\* the latest handler call ran organize_files on a non-empty Index under a valid root
Organized == last.op = "organize" /\ last.raised \notin {"NoFiles", "InvalidRoot"}

\* C1: organize is idempotent: once organize(rootDir, scan(rootDir)) has
\* completed, a second organize of the same root, with the Index of a fresh scan
\* of it, moves and renames nothing.
C1_SecondOrganizeMovesNothing ==
    (last.op = "organize" /\ last.second) => (last.raised = "none" /\ last.moves = <<>>)

\* C2: organize never overwrites or destroys a file: every file on disk before
\* organize is on disk after it, where it was or directly inside a category
\* folder, and no move goes to a path that is occupied at the moment of the move.
C2_NeverOverwrites ==
    [][last'.op = "organize" =>
          /\ \A p \in DOMAIN files :
                \E q \in DOMAIN files' :
                   /\ files'[q] = files[p]
                   /\ q = p \/ (Len(q) = 2 /\ q[1] \in Categories)
          /\ \A i \in 1..Len(last'.moves) : ~last'.moves[i].onto]_vars

\* an organize in which a file met its own name in the category folder and was
\* still moved there
C2_Witness ==
    /\ Organized
    /\ last.raised = "none"
    /\ \E i \in 1..Len(last.moves) :
          /\ last.moves[i].name \in last.moves[i].taken
          /\ last.moves[i].dst \in DOMAIN files

\* the file a record of the Index stands for lies directly in its category folder
InPlace(info) == ParentOf(info.full_path).parts = <<info.category>>

\* C3: a move that fails during organize (its source is gone) aborts that file
\* only: the call does not fail, and every other record of the Index is moved.
C3_FailedMoveIsolated ==
    [][(/\ last'.op = "organize"
        /\ last'.raised \notin {"NoFiles", "InvalidRoot"}
        /\ \E i \in 1..Len(files_info) :
              files_info[i].full_path.parts \notin DOMAIN files)
       => /\ last'.raised = "none"
          /\ \A i \in 1..Len(files_info) :
                \/ files_info[i].full_path.parts \notin DOMAIN files
                \/ files_info[i].full_path.parts \notin DOMAIN files'
                \/ InPlace(files_info[i])]_vars

\* C4: a scan in which one entry cannot be stat'ed, or goes away between being
\* listed and being stat'ed, does not abort: it returns a record for every other
\* regular file.
C4_ScanSurvivesUnreadableEntry ==
    (last.op = "scan" /\ last.fate \in {"race", "denied"})
    => /\ last.raised = "none"
       /\ \A k \in 1..Len(last.listing) :
             \/ last.listing[k][Len(last.listing[k])] \in Reserved
             \/ last.listing[k] = last.bad
             \/ \E i \in 1..Len(files_info) :
                   files_info[i].full_path.parts = last.listing[k]

\* C5: organize and export called with an empty Index both end with the "no
\* files" answer and without side effect: no directory is created, no file is
\* moved, and neither report file is created or overwritten.
C5_EmptyIndexNoSideEffect ==
    [][/\ \A text \in {CanonicalRoot, AliasRoot} :
             LET o == organize_files(PathOf(text), <<>>, files', dirs')
                 e == export_reports(PathOf(text), <<>>, reports_left', files', dirs')
             IN /\ o.ret = "No files found to organize."
                /\ o.st.raised = "none" /\ o.st.moves = <<>>
                /\ o.st.ffiles = files' /\ o.st.fdirs = dirs'
                /\ e.ret = "No files to export."
                /\ e.st.raised = "none"
                /\ e.st.ffiles = files' /\ e.st.fdirs = dirs'
       /\ (last'.op \in {"organize", "report"} /\ files_info = <<>>)
          => /\ last'.raised = "NoFiles"
             /\ files' = files /\ dirs' = dirs /\ files_info' = files_info]_vars

\* export pressed with an empty Index, after a scan that found nothing, in a tree
\* that holds files
C5_Witness ==
    /\ last.op = "report"
    /\ last.raised = "NoFiles"
    /\ track.scan.valid
    /\ files_info = <<>>
    /\ DOMAIN files # {}

\* the folder field names a directory
ValidRoot(text) == exists(PathOf(text), files, dirs) /\ is_dir(PathOf(text), dirs)

\* C6: a scan, recursive or not, of a root that does not exist or is not a
\* directory fails with the invalid-root error before any side effect: no Index
\* is returned and nothing changes.
C6_InvalidRootAborts ==
    [][\A text \in FolderTexts, rec \in BOOLEAN :
          (~ValidRoot(text) /\ on_scan_pressed(text, rec))
          => /\ last'.raised = "InvalidRoot"
             /\ files_info' = files_info
             /\ files' = files /\ dirs' = dirs]_vars

\* a scan of an invalid root refused while an earlier Index is held
C6_Witness ==
    /\ last.op = "scan"
    /\ last.raised = "InvalidRoot"
    /\ files_info # <<>>

\* C7: every record of every Index has a non-empty category that is one of the
\* ten table categories or "Others", and an empty ai_hint unless its category is
\* "Others", also when its name holds a keyword.
C7_CategoryAndHint ==
    \A i \in 1..Len(files_info) :
       /\ files_info[i].category # <<>>
       /\ files_info[i].category \in Categories
       /\ files_info[i].category # Others => files_info[i].ai_hint = <<>>

\* an Index holding a Documents record whose name has the keyword "report", and
\* an "Others" record with a hint
C7_Witness ==
    /\ \E i \in 1..Len(files_info) :
          /\ files_info[i].category = <<"D", "o", "c", "u", "m", "e", "n", "t", "s">>
          /\ Contains(<<"r", "e", "p", "o", "r", "t">>, lower(files_info[i].name))
          /\ files_info[i].ai_hint = <<>>
    /\ \E i \in 1..Len(files_info) :
          /\ files_info[i].category = Others
          /\ files_info[i].ai_hint = <<"I", "m", "a", "g", "e", "s">>

\* the category names asked for, in several spellings
CategoryQueries ==
    {<<"I", "m", "a", "g", "e", "s">>, <<"I", "M", "A", "G", "E", "S">>, <<"i", "m", "a", "g", "e", "s">>, <<"D", "o", "c", "u", "m", "e", "n", "t", "s">>, <<"d", "o", "c", "u", "m", "e", "n", "t", "s">>, <<"o", "t", "h", "e", "r", "s">>,
     <<"O", "t", "h", "e", "r", "s">>, <<"V", "i", "d", "e", "o", "s">>}

\* the record is one a category search for c has to return
Wanted(info, c) ==
    \/ lower(info.category) = lower(c)
    \/ info.category = Others /\ lower(info.ai_hint) = lower(c)

\* results holds the wanted records of index, each once, in the order of index
ExactlyWanted(index, c, results) ==
    LET at == {i \in 1..Len(index) : Wanted(index[i], c)}
    IN /\ Len(results) = Cardinality(at)
       /\ \A i \in at : results[Cardinality({j \in at : j <= i})] = index[i]

\* C8: a category search for C returns exactly the records whose category is C
\* and the "Others" records whose ai_hint is C, case-insensitively, each once and
\* in Index order, and leaves the Index unchanged.
C8_CategorySearch ==
    [][/\ \A c \in CategoryQueries :
             ExactlyWanted(files_info', c, search_files(files_info', "category", c))
       /\ last'.op = "search"
          => /\ files_info' = files_info
             /\ (last'.raised = "none" /\ last'.search_type = "category")
                => ExactlyWanted(files_info, last'.query, last'.results)]_vars

\* a category search that returned an Images record and an "Others" record hinted
\* Images, and left a record out
C8_Witness ==
    /\ last.op = "search"
    /\ last.search_type = "category"
    /\ \E i \in 1..Len(last.results) : last.results[i].category = <<"I", "m", "a", "g", "e", "s">>
    /\ \E i \in 1..Len(last.results) :
          last.results[i].category = Others /\ last.results[i].ai_hint = <<"I", "m", "a", "g", "e", "s">>
    /\ Len(last.results) < Len(files_info)

\* listing without the entries named like a report
RECURSIVE Unreserved(_)
Unreserved(listing) ==
    IF listing = <<>> THEN <<>>
    ELSE IF Head(listing)[Len(Head(listing))] \in Reserved THEN Unreserved(Tail(listing))
    ELSE <<Head(listing)>> \o Unreserved(Tail(listing))

\* the tree without the files named like a report
Subjects == [p \in {q \in DOMAIN files : q[Len(q)] \notin Reserved} |-> files[p]]

\* C9: the report files are never subject data: no Index holds a record named
\* like a report, a scan of a tree with the reports returns the records of the
\* scan of the tree without them, and organize does not move or rename the
\* reports written at the root.
C9_ReportsAreNotData ==
    /\ \A i \in 1..Len(files_info) : files_info[i].name \notin Reserved
    /\ \A rec \in BOOLEAN :
          \A listing \in Listings(PathOf(CanonicalRoot), rec, files, dirs) :
             scan_folder(PathOf(CanonicalRoot), rec, listing, 0, "denied",
                         files, dirs).files_info
             = scan_folder(PathOf(CanonicalRoot), rec, Unreserved(listing), 0,
                           "denied", Subjects, dirs).files_info
    /\ \A i \in 1..Len(last.moves) : last.moves[i].name \notin Reserved
    /\ \A p \in DOMAIN files : files[p].id = 0 => p \in {<<ReportCsv>>, <<ReportJson>>}

\* an organize, with the Index of a scan made after an export, that moved files
\* while both reports stayed at the root
C9_Witness ==
    /\ Organized
    /\ last.raised = "none"
    /\ last.moves # <<>>
    /\ track.settled.valid
    /\ <<ReportCsv>> \in DOMAIN files
    /\ <<ReportJson>> \in DOMAIN files

\* C10: a move whose destination name is taken in the category folder at the
\* moment of the move goes to "base (k).ext" with the smallest k >= 1 whose name
\* is free there at that moment; a move whose name is free keeps the name.
C10_SmallestFreeNumber ==
    \A i \in 1..Len(last.moves) :
       LET m == last.moves[i]
           base == stem(m.name)
           ext == suffix(m.name)
       IN IF m.name \notin m.taken
          THEN m.dst = Append(m.folder, m.name)
          ELSE \E k \in 1..(Cardinality(m.taken) + 1) :
                  /\ m.dst = Append(m.folder, numbered(base, k, ext))
                  /\ numbered(base, k, ext) \notin m.taken
                  /\ \A j \in 1..(k - 1) : numbered(base, j, ext) \in m.taken

\* three files of one name organized into one folder: the second became
\* "Report (1).TXT", the third "Report (2).TXT"
C10_Witness ==
    /\ Organized
    /\ last.raised = "none"
    /\ {<<<<"D", "o", "c", "u", "m", "e", "n", "t", "s">>, <<"R", "e", "p", "o", "r", "t", ".", "T", "X", "T">>>>, <<<<"D", "o", "c", "u", "m", "e", "n", "t", "s">>, <<"R", "e", "p", "o", "r", "t", " ", "(", "1", ")", ".", "T", "X", "T">>>>,
        <<<<"D", "o", "c", "u", "m", "e", "n", "t", "s">>, <<"R", "e", "p", "o", "r", "t", " ", "(", "2", ")", ".", "T", "X", "T">>>>} \subseteq DOMAIN files
    /\ \E i \in 1..Len(last.moves) :
          last.moves[i].dst = <<<<"D", "o", "c", "u", "m", "e", "n", "t", "s">>, <<"R", "e", "p", "o", "r", "t", " ", "(", "2", ")", ".", "T", "X", "T">>>>

\* the position in the Index of the record that stands for the file at p
PositionOf(p) == CHOOSE i \in 1..Len(files_info) : files_info[i].full_path.parts = p

\* C11: when organize completes on an Index freshly scanned from the root, every
\* file of the Index lies directly inside root/<its category>, a folder that
\* exists afterwards; the files are moved in Index order; and the folder is given
\* by the category alone, so an "Others" record goes to root/Others whatever its
\* ai_hint is.
C11_OrganizePostcondition ==
    [][(last'.op = "organize" /\ last'.raised = "none" /\ track.scan.valid)
       => /\ \A i \in 1..Len(files_info) :
                LET info == files_info[i]
                IN /\ <<info.category>> \in dirs'
                   /\ info.full_path.parts \in DOMAIN files
                   /\ \E q \in DOMAIN files' :
                         /\ Len(q) = 2
                         /\ q[1] = info.category
                         /\ files'[q] = files[info.full_path.parts]
          /\ \A a \in 1..Len(last'.moves) :
                LET m == last'.moves[a]
                IN /\ \E i \in 1..Len(files_info) : files_info[i].full_path.parts = m.src
                   /\ m.folder = <<files_info[PositionOf(m.src)].category>>
                   /\ Len(m.dst) = 2 /\ m.dst[1] = files_info[PositionOf(m.src)].category
                   /\ \A b \in 1..(a - 1) :
                         PositionOf(last'.moves[b].src) < PositionOf(m.src)]_vars

\* an organize of a freshly scanned tree that made the folder Others and moved
\* there a file hinted Images, after moving a file into Documents
C11_Witness ==
    /\ Organized
    /\ last.raised = "none"
    /\ track.settled.valid
    /\ <<Others>> \in dirs
    /\ <<<<"I", "m", "a", "g", "e", "s">>>> \notin dirs
    /\ \E a, b \in 1..Len(last.moves) :
          /\ a < b
          /\ last.moves[a].folder = <<<<"D", "o", "c", "u", "m", "e", "n", "t", "s">>>>
          /\ last.moves[b].folder = <<Others>>
          /\ last.moves[b].name = <<"p", "h", "o", "t", "o", "1", "2", "3", ".", "x", "y", "z">>
          /\ last.moves[b].dst \in DOMAIN files

====
